---- MODULE Spec2Model ----
(***************************************************************************)
(* Binary greedy mesher of expanse-ui                                      *)
(* (src/components/voxel2/meshing/greedyMesherOptimized_annotated.rs).     *)
(*                                                                         *)
(* Machine words (u32 plane rows, u64 axis columns, u32 group keys) are    *)
(* modelled as the set of the positions of their 1 bits, truncated to the  *)
(* word's width.  Two specifications:                                      *)
(*   SpecPlane  greedy_mesh_binary_plane applied to every plane of side    *)
(*              PlaneSide, one pass of its while loop per step;            *)
(*   Spec       build_chunk_mesh on a chunk of side CHUNK_SIZE and its     *)
(*              one-voxel border, one phase (or one merged plane) per step.*)
(***************************************************************************)
EXTENDS Integers, Sequences, FiniteSets, TLC

\* Side of the chunk (32 in the program), scaled down.
CHUNK_SIZE == 2
\* Side of the padded grid.
CHUNK_SIZE_P == CHUNK_SIZE + 2
\* Side of the planes handed to greedy_mesh_binary_plane on its own
\* (32 in the program), scaled down.
PlaneSide == 3

VARIABLES
    \* ---- greedy_mesh_binary_plane ----
    plane,          \* the argument `data` as passed by the caller
    pdata,          \* the local working copy `data`
    lod_size,       \* the argument `lod_size`
    row,            \* the for loop's `row`
    y,              \* the while loop's `y`
    greedy_quads,   \* the result vector
    ppc,            \* "idle" | "scan" | "done"
    \* ---- build_chunk_mesh ----
    voxels,         \* chunk.voxels of the centre chunk: 1 or CHUNK_SIZE^3 block types
    neighbours,     \* what get_block returns on the one-voxel border around the chunk
    all_same,       \* what chunks_refs.is_all_voxels_same() returns
    axis_cols,      \* phase 1
    col_face_masks, \* phase 2
    data,           \* phase 3: data[axis][block_hash][level] = plane
    axis,           \* phase 4: the direction being emitted (6 = all emitted)
    cur_key,        \* phase 4: the block_hash whose levels are being iterated
    emitted,        \* phase 4: the calls of append_vertices made so far
    vertices,       \* phase 4/5: the vertex buffer
    indices,        \* phase 5: mesh.indices
    result,         \* "pending" | "None" | "Some"
    pc              \* "idle" | "start" | "encoded" | "culled" | "meshing" | "done"

planeVars == <<plane, pdata, lod_size, row, y, greedy_quads, ppc>>
buildVars == <<voxels, neighbours, all_same, axis_cols, col_face_masks, data,
               axis, cur_key, emitted, vertices, indices, result, pc>>
vars == <<planeVars, buildVars>>

(***************************************************************************)
(* Words as sets of bit positions.                                         *)
(***************************************************************************)
SetMin(s) == CHOOSE m \in s : \A o \in s : m <= o

\* w >> n
Shr(w, n) == {b - n : b \in {c \in w : c >= n}}

\* w << n in a word of `width` bits: the bits shifted out are lost
Shl(w, n, width) == {b + n : b \in {c \in w : c + n < width}}

\* w.trailing_zeros(): the width of the word when w = 0
trailing_zeros(w, width) == IF w = {} THEN width ELSE SetMin(w)

\* A run probe that stops after the first 1 bit.
trailing_ones_single(w, width) == 1

\* A run length that wraps at the width of the word: a full row gives 0.
trailing_ones_wrapping(w, width) == SetMin({k \in 0..width : k \notin w \/ k = width}) % width

\* w.trailing_ones()
trailing_ones(w, width) == SetMin({k \in 0..width : k \notin w \/ k = width})

(***************************************************************************)
(* greedy_mesh_binary_plane                                                *)
(* A plane [u32; n] is a function from the rows 0 .. n-1 to words of n     *)
(* bits (n = 32 in the program: as many rows as a row has bits).           *)
(***************************************************************************)
\* data.len()
data_len(d) == Cardinality(DOMAIN d)

\* The width loses the top of the mask: what `(1 << h) - 1` gives where the
\* shift wraps at the word's width (h = width gives 1 << 0, hence mask 0).
h_as_mask_wrapping(h, width) == 0 .. ((h % width) - 1)

\* u32::checked_shl(1, h).map_or(!0, |v| v - 1)
h_as_mask_of(h, width) == IF h >= width THEN 0 .. (width - 1) ELSE 0 .. (h - 1)

\* No expansion at all: every quad keeps w = 1.
expand_width_none(d, r, yy, h_as_mask, w, size) == [data |-> d, w |-> w]

\* Expansion that forgets to clear the merged bits of the next row.
RECURSIVE expand_width_noclear(_, _, _, _, _, _)
expand_width_noclear(d, r, yy, h_as_mask, w, size) ==
    IF r + w < size /\ (Shr(d[r + w], yy) \cap h_as_mask) = h_as_mask
    THEN expand_width_noclear(d, r, yy, h_as_mask, w + 1, size)
    ELSE [data |-> d, w |-> w]

\* The horizontal expansion loop: `while row + w < lod_size { ... }`
RECURSIVE expand_width(_, _, _, _, _, _)
expand_width(d, r, yy, h_as_mask, w, size) ==
    IF r + w < size
    THEN LET next_row_h == Shr(d[r + w], yy) \cap h_as_mask
             mask == Shl(h_as_mask, yy, data_len(d))
         IN  IF next_row_h # h_as_mask
             THEN [data |-> d, w |-> w]
             ELSE expand_width([d EXCEPT ![r + w] = @ \ mask],
                               r, yy, h_as_mask, w + 1, size)
    ELSE [data |-> d, w |-> w]

\* One pass of the body of `while y < lod_size`, entered with yy < size.
scan_pass(d, r, yy, size) ==
    LET width == data_len(d)
        y1 == yy + trailing_zeros(Shr(d[r], yy), width)
    IN  IF y1 >= size
        THEN [data |-> d, y |-> y1, quads |-> <<>>]
        ELSE LET h == trailing_ones(Shr(d[r], y1), width)
                 h_as_mask == h_as_mask_of(h, width)
                 e == expand_width(d, r, y1, h_as_mask, 1, size)
             IN  [data |-> e.data, y |-> y1 + h,
                  quads |-> << [x |-> r, y |-> y1, w |-> e.w, h |-> h] >>]

\* The whole function: every row, every pass, in the program's order.
RECURSIVE mesh_from(_, _, _, _, _)
mesh_from(d, r, yy, quads, size) ==
    IF r >= data_len(d) THEN quads
    ELSE IF yy >= size THEN mesh_from(d, r + 1, 0, quads, size)
    ELSE LET s == scan_pass(d, r, yy, size)
         IN  mesh_from(s.data, r, s.y, quads \o s.quads, size)

greedy_mesh_binary_plane(d, size) == mesh_from(d, 0, 0, <<>>, size)

(***************************************************************************)
(* The chunk and its neighbourhood.                                        *)
(***************************************************************************)
\* Width of the axis columns and face masks (u64) and of the group keys (u32).
U64_BITS == 64
U32_BITS == 32

\* Block types: 0 is air, the others are solid blocks.
BlockTypes == 0 .. 2
is_solid(block_type) == block_type # 0

\* Chunk-local coordinates, and those of the chunk with its one-voxel border.
LocalCoords == 0 .. (CHUNK_SIZE - 1)
BorderedCoords == (0 - 1) .. CHUNK_SIZE
Positions == BorderedCoords \X BorderedCoords \X BorderedCoords
InChunk(pos) == \A i \in 1 .. 3 : pos[i] \in LocalCoords
ChunkPositions == {pos \in Positions : InChunk(pos)}

\* The index of voxel (x, y, z) in chunk.voxels: `match chunk.voxels.len()`
voxel_index(vs, x, yy, z) ==
    IF Len(vs) = 1 THEN 0 ELSE (z * CHUNK_SIZE + yy) * CHUNK_SIZE + x

\* chunks_refs.get_block_no_neighbour(pos): the centre chunk's voxel
get_block_no_neighbour(pos) == voxels[voxel_index(voxels, pos[1], pos[2], pos[3]) + 1]

\* chunks_refs.get_block(pos): the centre chunk's voxel, or the neighbour's
get_block(pos) ==
    IF InChunk(pos) THEN get_block_no_neighbour(pos) ELSE neighbours[pos]

(***************************************************************************)
(* Phase 1: the solid voxels, as bit columns along each axis.              *)
(***************************************************************************)
PaddedCoords == 0 .. (CHUNK_SIZE_P - 1)

\* The loop over the chunk's own voxels without the padding offset on x.
inner_solid_cells_unpadded ==
    {<<x, yy + 1, z + 1>> : <<x, yy, z>> \in
        {c \in LocalCoords \X LocalCoords \X LocalCoords :
            is_solid(voxels[voxel_index(voxels, c[1], c[2], c[3]) + 1])}}

\* The padded cells set by the loop over the chunk's own voxels.
inner_solid_cells ==
    {<<x + 1, yy + 1, z + 1>> : <<x, yy, z>> \in
        {c \in LocalCoords \X LocalCoords \X LocalCoords :
            is_solid(voxels[voxel_index(voxels, c[1], c[2], c[3]) + 1])}}

\* The border sweeps without the one over the X boundaries.
border_sweep_cells_no_x ==
    {c \in PaddedCoords \X PaddedCoords \X PaddedCoords :
        \/ c[3] \in {0, CHUNK_SIZE_P - 1}
        \/ c[2] \in {0, CHUNK_SIZE_P - 1}}

\* The padded cells the three border sweeps visit (Z, then Y, then X).
border_sweep_cells ==
    {c \in PaddedCoords \X PaddedCoords \X PaddedCoords :
        \/ c[3] \in {0, CHUNK_SIZE_P - 1}
        \/ c[2] \in {0, CHUNK_SIZE_P - 1}
        \/ c[1] \in {0, CHUNK_SIZE_P - 1}}

border_solid_cells ==
    {c \in border_sweep_cells : is_solid(get_block(<<c[1] - 1, c[2] - 1, c[3] - 1>>))}

\* add_voxel_to_axis_cols over all the cells visited:
\*   axis_cols[0][z][x] has bit y, axis_cols[1][y][z] bit x, axis_cols[2][y][x] bit z
encode_axis_cols ==
    LET solid == inner_solid_cells \cup border_solid_cells
    IN  [a \in 0 .. 2 |-> [i \in PaddedCoords |-> [j \in PaddedCoords |->
            CASE a = 0 -> {b \in PaddedCoords : <<j, b, i>> \in solid}
              [] a = 1 -> {b \in PaddedCoords : <<b, i, j>> \in solid}
              [] OTHER -> {b \in PaddedCoords : <<j, i, b>> \in solid}]]]

(***************************************************************************)
(* Phase 2: face culling.                                                  *)
(***************************************************************************)
\* col & !(col << 1)
descending_faces(col) == col \ Shl(col, 1, U64_BITS)

\* An ascending culling that shifts the wrong way.
ascending_faces_shl(col) == col \ Shl(col, 1, U64_BITS)

\* col & !(col >> 1)
ascending_faces(col) == col \ Shr(col, 1)

cull_faces(cols) ==
    [d \in 0 .. 5 |-> [i \in PaddedCoords |-> [j \in PaddedCoords |->
        IF d % 2 = 0 THEN descending_faces(cols[d \div 2][i][j])
                     ELSE ascending_faces(cols[d \div 2][i][j])]]]

(***************************************************************************)
(* Phase 3: grouping of the faces into binary planes.                      *)
(***************************************************************************)
\* The 8 offsets sampled around a face, in the order of their bits.
ADJACENT_AO_DIRS ==
    << <<0 - 1, 0 - 1>>, <<0 - 1, 0>>, <<0 - 1, 1>>, <<0, 0 - 1>>,
       <<0, 1>>, <<1, 0 - 1>>, <<1, 0>>, <<1, 1>> >>

\* Padding removal that shifts but leaves the top padding bit in place.
remove_padding_shift_only(col) == Shr(col, 1)

\* col >>= 1; col &= !(1 << CHUNK_SIZE)
remove_padding(col) == Shr(col, 1) \ {CHUNK_SIZE}

\* `match axis` of voxel_pos: x and z are the plane's indices, yy the bit
voxel_pos_of(d, x, yy, z) ==
    CASE d \in {0, 1} -> <<x, yy, z>>
      [] d \in {2, 3} -> <<yy, z, x>>
      [] OTHER        -> <<x, z, yy>>

\* `match axis` of ao_sample_offset
ao_sample_offset(d, o) ==
    CASE d = 0 -> <<o[1], 0 - 1, o[2]>>
      [] d = 1 -> <<o[1], 1, o[2]>>
      [] d = 2 -> <<0 - 1, o[2], o[1]>>
      [] d = 3 -> <<1, o[2], o[1]>>
      [] d = 4 -> <<o[1], o[2], 0 - 1>>
      [] OTHER -> <<o[1], o[2], 1>>

\* ao_index: bit ao_i is set when the ao_i-th sampled voxel is solid
ao_index_of(d, voxel_pos) ==
    {i - 1 : i \in {k \in 1 .. Len(ADJACENT_AO_DIRS) :
        LET off == ao_sample_offset(d, ADJACENT_AO_DIRS[k])
        IN  is_solid(get_block(<<voxel_pos[1] + off[1], voxel_pos[2] + off[2],
                                 voxel_pos[3] + off[3]>>))}}

\* The bits of a number, and the number of a set of bits.
RECURSIVE BitsFrom(_, _)
BitsFrom(n, i) ==
    IF n = 0 THEN {}
    ELSE (IF n % 2 = 1 THEN {i} ELSE {}) \cup BitsFrom(n \div 2, i + 1)
BitsOf(n) == BitsFrom(n, 0)
RECURSIVE ValueOf(_)
ValueOf(bits) ==
    IF bits = {} THEN 0
    ELSE LET b == SetMin(bits) IN (2 ^ b) + ValueOf(bits \ {b})

\* A key that leaves the block type out.
block_hash_ao_only(ao, block_type) == ao

\* ao_index | ((block_type as u32) << 9)
block_hash_of(ao, block_type) == ao \cup Shl(BitsOf(block_type), 9, U32_BITS)

\* The faces left in the masks after padding removal, as (axis, x, bit, z):
\* the column is col_face_masks[axis][z + 1][x + 1].
faces_of(masks) ==
    UNION {{<<c[1], c[2], b, c[3]>> : b \in remove_padding(masks[c[1]][c[3] + 1][c[2] + 1])} :
                c \in (0 .. 5) \X LocalCoords \X LocalCoords}

face_key(f) ==
    LET voxel_pos == voxel_pos_of(f[1], f[2], f[3], f[4])
    IN  block_hash_of(ao_index_of(f[1], voxel_pos),
                      get_block_no_neighbour(voxel_pos))

\* data[axis].entry(block_hash).or_default().entry(y).or_default()[x] |= 1 << z
group_faces(masks) ==
    LET faces == faces_of(masks)
    IN  [d \in 0 .. 5 |->
            LET fs == {f \in faces : f[1] = d}
                keys == {face_key(f) : f \in fs}
            IN  [k \in keys |->
                    LET fk == {f \in fs : face_key(f) = k}
                    IN  [l \in {f[3] : f \in fk} |->
                            [x \in LocalCoords |->
                                {f[4] : f \in {g \in fk : g[3] = l /\ g[2] = x}}]]]]

(***************************************************************************)
(* Phase 4/5: GreedyQuad::append_vertices and the index buffer.            *)
(***************************************************************************)
FaceDirOf(d) == <<"Down", "Up", "Left", "Right", "Forward", "Back">>[d + 1]

\* FaceDir::reverse_order
reverse_order(face_dir) == face_dir \in {"Up", "Right", "Forward"}

\* FaceDir::world_to_sample
world_to_sample(face_dir, level, x, yy) ==
    CASE face_dir = "Up"      -> <<x, level + 1, yy>>
      [] face_dir = "Down"    -> <<x, level, yy>>
      [] face_dir = "Left"    -> <<level, yy, x>>
      [] face_dir = "Right"   -> <<level + 1, yy, x>>
      [] face_dir = "Forward" -> <<x, yy, level>>
      [] OTHER                -> <<x, yy, level + 1>>

\* make_vertex_u32: the fields of the packed vertex
make_vertex_u32(pos, ao, normal, block_type) ==
    [pos |-> pos, ao |-> ao, normal |-> normal, block_type |-> block_type]

\* (ao >> i) & 1
AoBit(ao, i) == IF i \in ao THEN 1 ELSE 0

v1ao_of(ao) == AoBit(ao, 0) + AoBit(ao, 1) + AoBit(ao, 3)
v2ao_of(ao) == AoBit(ao, 3) + AoBit(ao, 6) + AoBit(ao, 7)
v3ao_of(ao) == AoBit(ao, 5) + AoBit(ao, 8) + AoBit(ao, 7)
v4ao_of(ao) == AoBit(ao, 1) + AoBit(ao, 2) + AoBit(ao, 5)

\* The four corners v1 .. v4 of a quad, before any reordering
quad_corners(q, face_dir, level, ao, block_type) ==
    << make_vertex_u32(world_to_sample(face_dir, level, q.x, q.y),
                       v1ao_of(ao), face_dir, block_type),
       make_vertex_u32(world_to_sample(face_dir, level, q.x + q.w, q.y),
                       v2ao_of(ao), face_dir, block_type),
       make_vertex_u32(world_to_sample(face_dir, level, q.x + q.w, q.y + q.h),
                       v3ao_of(ao), face_dir, block_type),
       make_vertex_u32(world_to_sample(face_dir, level, q.x, q.y + q.h),
                       v4ao_of(ao), face_dir, block_type) >>

Reversed(sq) == [i \in 1 .. Len(sq) |-> sq[Len(sq) + 1 - i]]

\* A winding correction that reverses the whole deque.
winding_reverse_all(new_vertices, face_dir) ==
    IF reverse_order(face_dir) THEN Reversed(new_vertices) ELSE new_vertices

\* split_off(1), then push_back of the rest in reverse
winding(new_vertices, face_dir) ==
    IF reverse_order(face_dir)
    THEN <<Head(new_vertices)>> \o Reversed(Tail(new_vertices))
    ELSE new_vertices

\* pop_front, push_back when exactly one of v1ao, v3ao is 0
anisotropy_fix(new_vertices, v1ao, v3ao) ==
    IF (v1ao > 0) # (v3ao > 0)
    THEN Append(Tail(new_vertices), Head(new_vertices))
    ELSE new_vertices

\* The vertices one call of append_vertices adds
append_vertices(q, face_dir, level, ao, block_type) ==
    anisotropy_fix(winding(quad_corners(q, face_dir, level, ao, block_type), face_dir),
                   v1ao_of(ao), v3ao_of(ao))

\* generate_indices: two triangles per 4 vertices
RECURSIVE generate_indices(_)
generate_indices(n) ==
    IF n < 4 THEN <<>>
    ELSE LET b == n - 4
         IN  generate_indices(b) \o <<b, b + 1, b + 2, b, b + 2, b + 3>>

(***************************************************************************)
(* SpecPlane: greedy_mesh_binary_plane, one pass of the while loop a step. *)
(***************************************************************************)
Planes(n) == [0 .. n - 1 -> SUBSET (0 .. n - 1)]

BuildIdle ==
    /\ voxels = <<>> /\ neighbours = <<>> /\ all_same = FALSE
    /\ axis_cols = <<>> /\ col_face_masks = <<>> /\ data = <<>>
    /\ axis = 0 /\ cur_key = {} /\ emitted = <<>> /\ vertices = <<>>
    /\ indices = <<>> /\ result = "pending" /\ pc = "idle"

InitPlane ==
    /\ plane \in Planes(PlaneSide)
    /\ pdata = plane
    /\ lod_size = PlaneSide
    /\ row = 0
    /\ y = 0
    /\ greedy_quads = <<>>
    /\ ppc = "scan"
    /\ BuildIdle

\* One pass of the while loop's body.
PlaneScan ==
    /\ ppc = "scan"
    /\ y < lod_size
    /\ LET s == scan_pass(pdata, row, y, lod_size)
       IN  /\ pdata' = s.data
           /\ y' = s.y
           /\ greedy_quads' = greedy_quads \o s.quads
    /\ UNCHANGED <<plane, lod_size, row, ppc, buildVars>>

\* The while loop ends; the for loop takes the next row.
PlaneNextRow ==
    /\ ppc = "scan"
    /\ y >= lod_size
    /\ row + 1 < data_len(pdata)
    /\ row' = row + 1
    /\ y' = 0
    /\ UNCHANGED <<plane, pdata, lod_size, greedy_quads, ppc, buildVars>>

\* The for loop ends; greedy_quads is returned.
PlaneReturn ==
    /\ ppc = "scan"
    /\ y >= lod_size
    /\ row + 1 >= data_len(pdata)
    /\ ppc' = "done"
    /\ UNCHANGED <<plane, pdata, lod_size, row, y, greedy_quads, buildVars>>

NextPlane == PlaneScan \/ PlaneNextRow \/ PlaneReturn

SpecPlane == InitPlane /\ [][NextPlane]_vars

\* The function is one sequential loop nest that nothing suspends: while a
\* pass, a next row or the return is possible, one of them is taken.
FairSpecPlane == SpecPlane /\ WF_vars(NextPlane)

(***************************************************************************)
(* Spec: build_chunk_mesh.                                                 *)
(***************************************************************************)
PlaneIdle ==
    /\ plane = <<>> /\ pdata = <<>> /\ lod_size = 0 /\ row = 0 /\ y = 0
    /\ greedy_quads = <<>> /\ ppc = "idle"

\* The neighbourhoods built.  Clustered: one block type everywhere (air or
\* block 1), but for up to two voxels next to each other, the first in the
\* chunk, the second in the chunk or on its border.  Layered: a solid half-space (all voxels on one side of a
\* level along one axis) in air, but for up to one voxel at a corner of the
\* chunk.
ChunkCorners == {p \in ChunkPositions : \A i \in 1 .. 3 : p[i] \in {0, CHUNK_SIZE - 1}}
Near(c) == {p \in Positions : \A i \in 1 .. 3 : p[i] - c[i] \in {0 - 1, 0, 1}}
ClusteredWorlds ==
    {[p \in Positions |-> IF p = f[3] THEN f[4] ELSE IF p = f[1] THEN f[2] ELSE f[5]] :
        f \in {g \in ChunkPositions \X BlockTypes \X Positions \X BlockTypes \X {0, 1} :
                  g[3] \in Near(g[1])}}
LayeredWorlds ==
    {[p \in Positions |->
        IF p = f[5] THEN f[6]
        ELSE IF (f[3] = 0 /\ p[f[1]] <= f[2]) \/ (f[3] = 1 /\ p[f[1]] >= f[2])
             THEN f[4] ELSE 0] :
        f \in (1 .. 3) \X LocalCoords \X {0, 1} \X (BlockTypes \ {0})
                 \X ChunkCorners \X BlockTypes}
Worlds == ClusteredWorlds \cup LayeredWorlds

\* chunk.voxels in the full format: index (z * CHUNK_SIZE + y) * CHUNK_SIZE + x
FullVoxels(w) ==
    [i \in 1 .. (CHUNK_SIZE * CHUNK_SIZE * CHUNK_SIZE) |->
        w[<<(i - 1) % CHUNK_SIZE,
            ((i - 1) \div CHUNK_SIZE) % CHUNK_SIZE,
            (i - 1) \div (CHUNK_SIZE * CHUNK_SIZE)>>]]

\* The two storage formats: a chunk of one repeated voxel may hold just it.
ChunkStorages(w) ==
    {FullVoxels(w)} \cup
    {<<t>> : t \in {u \in BlockTypes : \A p \in ChunkPositions : w[p] = u}}

\* is_all_voxels_same: true only when every chunk of the neighbourhood is one
\* repeated voxel of the same block type.
AllSameResults(w, vs) ==
    IF Len(vs) = 1 /\ \A p \in Positions : w[p] = vs[1] THEN {TRUE, FALSE} ELSE {FALSE}

Init ==
    /\ \E w \in Worlds :
        /\ voxels \in ChunkStorages(w)
        /\ neighbours = [p \in Positions \ ChunkPositions |-> w[p]]
        /\ all_same \in AllSameResults(w, voxels)
    /\ axis_cols = <<>>
    /\ col_face_masks = <<>>
    /\ data = <<>>
    /\ axis = 0
    /\ cur_key = {}
    /\ emitted = <<>>
    /\ vertices = <<>>
    /\ indices = <<>>
    /\ result = "pending"
    /\ pc = "start"
    /\ PlaneIdle

\* if chunks_refs.is_all_voxels_same() { return None; }
EarlyExit ==
    /\ pc = "start"
    /\ all_same
    /\ result' = "None"
    /\ pc' = "done"
    /\ UNCHANGED <<voxels, neighbours, all_same, axis_cols, col_face_masks, data,
                   axis, cur_key, emitted, vertices, indices, planeVars>>

\* Phase 1
Encode ==
    /\ pc = "start"
    /\ ~all_same
    /\ axis_cols' = encode_axis_cols
    /\ pc' = "encoded"
    /\ UNCHANGED <<voxels, neighbours, all_same, col_face_masks, data, axis,
                   cur_key, emitted, vertices, indices, result, planeVars>>

\* Phase 2
Cull ==
    /\ pc = "encoded"
    /\ col_face_masks' = cull_faces(axis_cols)
    /\ pc' = "culled"
    /\ UNCHANGED <<voxels, neighbours, all_same, axis_cols, data, axis,
                   cur_key, emitted, vertices, indices, result, planeVars>>

\* The first direction from d on whose map still holds a plane (6: none).
next_axis(dt, d) == SetMin({a \in d .. 6 : a = 6 \/ DOMAIN dt[a] # {}})

\* Phase 3
Group ==
    /\ pc = "culled"
    /\ data' = group_faces(col_face_masks)
    /\ axis' = next_axis(data', 0)
    /\ pc' = "meshing"
    /\ UNCHANGED <<voxels, neighbours, all_same, axis_cols, col_face_masks,
                   cur_key, emitted, vertices, indices, result, planeVars>>

\* quads_from_axis.into_iter().for_each(|q| q.append_vertices(...))
RECURSIVE quads_vertices(_, _, _, _, _)
quads_vertices(quads, face_dir, level, ao, block_type) ==
    IF quads = <<>> THEN <<>>
    ELSE append_vertices(Head(quads), face_dir, level, ao, block_type)
            \o quads_vertices(Tail(quads), face_dir, level, ao, block_type)

\* let ao = block_ao & 0b111111111
key_ao(block_ao) == block_ao \cap (0 .. 8)

\* let block_type = block_ao >> 9
key_block_type(block_ao) == ValueOf(Shr(block_ao, 9))

\* The side handed to greedy_mesh_binary_plane at full resolution
build_lod_size == CHUNK_SIZE

\* Phase 4, one plane: the maps are iterated in no particular order, the
\* levels of one key before the next key.
MeshPlane ==
    /\ pc = "meshing"
    /\ axis < 6
    /\ \E block_ao \in DOMAIN data[axis] :
        /\ cur_key \in {{}, {block_ao}}
        /\ \E axis_pos \in DOMAIN data[axis][block_ao] :
            LET quads_from_axis ==
                    greedy_mesh_binary_plane(data[axis][block_ao][axis_pos], build_lod_size)
                facedir == FaceDirOf(axis)
                ao == key_ao(block_ao)
                block_type == key_block_type(block_ao)
                calls == [i \in 1 .. Len(quads_from_axis) |->
                             [axis |-> axis, block_ao |-> block_ao, axis_pos |-> axis_pos,
                              q |-> quads_from_axis[i], ao |-> ao, block_type |-> block_type]]
                levels == [l \in (DOMAIN data[axis][block_ao]) \ {axis_pos} |->
                              data[axis][block_ao][l]]
                rest == IF DOMAIN levels = {}
                        THEN [k \in (DOMAIN data[axis]) \ {block_ao} |-> data[axis][k]]
                        ELSE [data[axis] EXCEPT ![block_ao] = levels]
            IN  /\ vertices' = vertices \o
                        quads_vertices(quads_from_axis, facedir, axis_pos, ao, block_type)
                /\ emitted' = emitted \o calls
                /\ data' = [data EXCEPT ![axis] = rest]
                /\ cur_key' = IF DOMAIN levels = {} THEN {} ELSE {block_ao}
                /\ axis' = next_axis(data', axis)
    /\ UNCHANGED <<voxels, neighbours, all_same, axis_cols, col_face_masks,
                   indices, result, pc, planeVars>>

\* Phase 5
Finalize ==
    /\ pc = "meshing"
    /\ axis = 6
    /\ IF vertices = <<>>
       THEN result' = "None" /\ indices' = indices
       ELSE result' = "Some" /\ indices' = generate_indices(Len(vertices))
    /\ pc' = "done"
    /\ UNCHANGED <<voxels, neighbours, all_same, axis_cols, col_face_masks, data,
                   axis, cur_key, emitted, vertices, planeVars>>

Next == EarlyExit \/ Encode \/ Cull \/ Group \/ MeshPlane \/ Finalize

Spec == Init /\ [][Next]_vars

(***************************************************************************)
(* Properties of greedy_mesh_binary_plane (SpecPlane).                     *)
(***************************************************************************)
\* The cells {(row, bit)} a quad covers, and the set bits of a plane.
QuadCells(q) == {<<r, b>> : r \in q.x .. (q.x + q.w - 1), b \in q.y .. (q.y + q.h - 1)}
PlaneBits(p) == {c \in (DOMAIN p) \X (0 .. (data_len(p) - 1)) : c[2] \in p[c[1]]}
QuadsDisjoint(qs) ==
    \A i, j \in 1 .. Len(qs) : i < j => QuadCells(qs[i]) \cap QuadCells(qs[j]) = {}
QuadsCover(qs) == UNION {QuadCells(qs[i]) : i \in 1 .. Len(qs)}

\* C1: when greedy_mesh_binary_plane returns (lod_size = the plane's side),
\* its quads are pairwise disjoint and the union of their cells is exactly
\* the set of bits set in the input plane.
C1_DisjointExactCover ==
    ppc = "done" =>
        /\ QuadsDisjoint(greedy_quads)
        /\ QuadsCover(greedy_quads) = PlaneBits(plane)

\* A plane with set and unset bits that needs several quads, one of them
\* merged over rows and over bits.
C1_Witness ==
    /\ ppc = "done"
    /\ Len(greedy_quads) >= 2
    /\ PlaneBits(plane) # (DOMAIN plane) \X (DOMAIN plane)
    /\ \E i \in 1 .. Len(greedy_quads) : greedy_quads[i].w >= 2 /\ greedy_quads[i].h >= 2

\* Whether cells is the union of at most k pairwise disjoint rectangles: the
\* least cell (row first, then bit) is the corner of its rectangle.
LeastCell(cells) ==
    CHOOSE c \in cells : \A o \in cells : c[1] < o[1] \/ (c[1] = o[1] /\ c[2] <= o[2])
RectsAt(c, cells) ==
    LET far == {o[1] - c[1] : o \in cells} \cup {o[2] - c[2] : o \in cells}
        ext == {e \in far : e >= 0}
    IN  {r \in {{<<c[1] + i, c[2] + j>> : i \in 0 .. w, j \in 0 .. h} :
                    w \in ext, h \in ext} :
            r \subseteq cells}
RECURSIVE CoverableBy(_, _)
CoverableBy(cells, k) ==
    \/ cells = {}
    \/ /\ k > 0
       /\ \E r \in RectsAt(LeastCell(cells), cells) : CoverableBy(cells \ r, k - 1)

IsRectangle(cells) ==
    /\ cells # {}
    /\ \E r \in RectsAt(LeastCell(cells), cells) : r = cells

C7_WidthMaximal ==
    [][ /\ Len(greedy_quads') > Len(greedy_quads) =>
            LET q == greedy_quads'[Len(greedy_quads')]
                range == q.y .. (q.y + q.h - 1)
            IN  /\ \/ q.x + q.w = lod_size
                   \/ ~(range \subseteq pdata'[q.x + q.w])
                /\ \A r \in (q.x + 1) .. (q.x + q.w - 1) :
                       /\ range \subseteq pdata[r]
                       /\ range \cap pdata'[r] = {}
        /\ ppc' = "done" =>
            \A r \in 0 .. (lod_size - 2), b \in 0 .. (lod_size - 1) :
                PlaneBits(plane) = {<<r, b>>, <<r + 1, b>>} =>
                    greedy_quads' = << [x |-> r, y |-> b, w |-> 2, h |-> 1] >>
      ]_vars

\* A quad widened over a second row and stopped by a row that does not match.
C7_Witness ==
    /\ ppc = "scan"
    /\ Len(greedy_quads) >= 1
    /\ LET q == greedy_quads[Len(greedy_quads)]
       IN  /\ q.w >= 2
           /\ q.x + q.w < lod_size
           /\ pdata[q.x + q.w] # {}

(***************************************************************************)
(* Properties of build_chunk_mesh (Spec).                                  *)
(***************************************************************************)
\* The unit normal of direction d: Down, Up, Left, Right, Forward, Back.
Normal(d) ==
    << <<0, 0 - 1, 0>>, <<0, 1, 0>>, <<0 - 1, 0, 0>>, <<1, 0, 0>>,
       <<0, 0, 0 - 1>>, <<0, 0, 1>> >>[d + 1]

\* Voxel pos of the chunk is solid and its neighbour in direction d is not.
FaceVisible(d, pos) ==
    /\ is_solid(get_block(pos))
    /\ ~is_solid(get_block(<<pos[1] + Normal(d)[1], pos[2] + Normal(d)[2],
                             pos[3] + Normal(d)[3]>>))

\* The face-mask cells (x, bit, z) a call of append_vertices covers: the
\* quad's rows are x, its bits are z, its plane's level is the bit.
CallCells(e) == {<<c[1], e.axis_pos, c[2]>> : c \in QuadCells(e.q)}
\* The voxels whose face the call covers.
CallVoxels(e) == {voxel_pos_of(e.axis, c[1], c[2], c[3]) : c \in CallCells(e)}
CallsOf(d) == {i \in 1 .. Len(emitted) : emitted[i].axis = d}
Built == pc = "done" /\ col_face_masks # <<>>

\* C2: once the build is over, in each direction every bit left in the face
\* masks after padding removal is covered by exactly one emitted quad, of
\* whatever key, and the emitted quads cover nothing else.
C2_QuadsCoverMasksOnce ==
    Built =>
        \A d \in 0 .. 5 :
            LET bits == {<<f[2], f[3], f[4]>> : f \in {g \in faces_of(col_face_masks) : g[1] = d}}
            IN  /\ \A c \in bits : Cardinality({i \in CallsOf(d) : c \in CallCells(emitted[i])}) = 1
                /\ \A i \in CallsOf(d) : CallCells(emitted[i]) \subseteq bits

\* A direction whose faces went to two different keys, one of them merged.
C2_Witness ==
    /\ Built
    /\ \E i, j \in 1 .. Len(emitted) :
        /\ emitted[i].axis = emitted[j].axis
        /\ emitted[i].block_ao # emitted[j].block_ao
        /\ emitted[i].q.w * emitted[i].q.h >= 2

\* C3: after phase 2 a face-mask bit is set for a voxel of the chunk and a
\* direction just when the voxel is solid and its neighbour in that direction (the adjacent
\* chunk's voxel at a chunk edge) is not; and the finished build holds
\* exactly one face for such a voxel and direction, none otherwise.
C3_FaceIffSolidAndNeighbourNot ==
    /\ pc = "culled" =>
        LET masked == {<<f[1], voxel_pos_of(f[1], f[2], f[3], f[4])>> :
                          f \in faces_of(col_face_masks)}
        IN  \A d \in 0 .. 5, pos \in ChunkPositions :
                FaceVisible(d, pos) <=> <<d, pos>> \in masked
    /\ pc = "done" =>
        LET covered == [i \in 1 .. Len(emitted) |-> CallVoxels(emitted[i])]
        IN  \A d \in 0 .. 5, pos \in ChunkPositions :
                Cardinality({i \in CallsOf(d) : pos \in covered[i]})
                    = IF FaceVisible(d, pos) THEN 1 ELSE 0

\* A solid edge voxel faces a solid voxel of the neighbour chunk on one side
\* and a non-solid one on another.
C3_Witness ==
    /\ pc = "done"
    /\ \E pos \in ChunkPositions, d, dd \in 0 .. 5 :
        LET n == <<pos[1] + Normal(d)[1], pos[2] + Normal(d)[2], pos[3] + Normal(d)[3]>>
            m == <<pos[1] + Normal(dd)[1], pos[2] + Normal(dd)[2], pos[3] + Normal(dd)[3]>>
        IN  /\ is_solid(get_block(pos))
            /\ ~InChunk(n) /\ is_solid(get_block(n))
            /\ ~InChunk(m) /\ ~is_solid(get_block(m))
            /\ \E i \in CallsOf(dd) : pos \in CallVoxels(emitted[i])

\* C4: once the build is over, the faces one emitted quad covers all have the block type and the AO
\* pattern handed to append_vertices for it (decoded from the key), so that
\* faces of different block types or patterns are never in one quad.
C4_QuadFacesShareKey ==
    pc = "done" =>
        \A i \in 1 .. Len(emitted) :
            \A pos \in CallVoxels(emitted[i]) :
                /\ get_block(pos) = emitted[i].block_type
                /\ ao_index_of(emitted[i].axis, pos) = emitted[i].ao
                /\ block_hash_of(emitted[i].ao, emitted[i].block_type) = emitted[i].block_ao

\* Two solid voxels of different block types, adjacent in the plane of a
\* direction in which both show a face: two quads at the same level.
C4_Witness ==
    /\ pc = "done"
    /\ \E i, j \in 1 .. Len(emitted) :
        /\ emitted[i].axis = emitted[j].axis
        /\ emitted[i].axis_pos = emitted[j].axis_pos
        /\ emitted[i].block_type # emitted[j].block_type
        /\ emitted[i].ao = emitted[j].ao
        /\ \/ emitted[j].q.x = emitted[i].q.x + emitted[i].q.w /\ emitted[j].q.y = emitted[i].q.y
           \/ emitted[j].q.y = emitted[i].q.y + emitted[i].q.h /\ emitted[j].q.x = emitted[i].q.x

\* C5: the build returns None just when no voxel of the chunk is solid with
\* a non-solid neighbour in any direction.
C5_NoneIffNoFace ==
    pc = "done" =>
        (result = "None" <=> \A d \in 0 .. 5, pos \in ChunkPositions : ~FaceVisible(d, pos))

\* A chunk of solid voxels, every face culled by solid neighbours, that went
\* through all the phases (no early exit) and came out as None.
C5_Witness ==
    /\ pc = "done"
    /\ result = "None"
    /\ ~all_same
    /\ \A pos \in ChunkPositions : is_solid(get_block(pos))

\* C8: once the build is over, each call of append_vertices has added 4 vertices, the corners v1 .. v4 in
\* the order 1 2 3 4, or 1 4 3 2 for a direction of reversed winding, rotated
\* by one (2 3 4 1, or 4 3 2 1) just when exactly one of the AO intensities of
\* corners 1 and 3 is zero; the buffer holds 4 vertices per quad.
C8_VertexOrder ==
    pc = "done" =>
    /\ Len(vertices) = 4 * Len(emitted)
    /\ \A i \in 1 .. Len(emitted) :
        LET e == emitted[i]
            v == quad_corners(e.q, FaceDirOf(e.axis), e.axis_pos, e.ao, e.block_type)
            rev == reverse_order(FaceDirOf(e.axis))
            rot == (v[1].ao = 0 /\ v[3].ao # 0) \/ (v[1].ao # 0 /\ v[3].ao = 0)
            order == CASE ~rev /\ ~rot -> <<1, 2, 3, 4>>
                       [] rev /\ ~rot  -> <<1, 4, 3, 2>>
                       [] ~rev /\ rot  -> <<2, 3, 4, 1>>
                       [] OTHER        -> <<4, 3, 2, 1>>
        IN  /\ \A k \in 1 .. 4 : vertices[4 * (i - 1) + k] = v[order[k]]
            /\ Cardinality({v[k] : k \in 1 .. 4}) = 4

\* All four orders have been emitted.
C8_Witness ==
    /\ pc = "done"
    /\ \A rev, rot \in BOOLEAN :
        \E i \in 1 .. Len(emitted) :
            /\ reverse_order(FaceDirOf(emitted[i].axis)) = rev
            /\ ((v1ao_of(emitted[i].ao) > 0) # (v3ao_of(emitted[i].ao) > 0)) = rot

\* The 8 voxels sampled around the face of pos in direction d are all solid.
AllSampledSolid(d, pos) ==
    \A k \in 1 .. Len(ADJACENT_AO_DIRS) :
        LET off == ao_sample_offset(d, ADJACENT_AO_DIRS[k])
        IN  is_solid(get_block(<<pos[1] + off[1], pos[2] + off[2], pos[3] + off[3]>>))

SolidPositions == {p \in Positions : is_solid(get_block(p))}
SingleVoxel == Cardinality(SolidPositions) = 1 /\ SolidPositions \subseteq ChunkPositions

\* C10: a single solid voxel of the chunk with nothing else solid gives 6
\* quads, one per direction, each 1 by 1, 24 vertices and 36 indices, every
\* AO intensity 0.
C10_SingleVoxel ==
    (pc = "done" /\ SingleVoxel) =>
        /\ result = "Some"
        /\ Len(emitted) = 6
        /\ {emitted[i].axis : i \in 1 .. 6} = 0 .. 5
        /\ \A i \in 1 .. 6 : emitted[i].q.w = 1 /\ emitted[i].q.h = 1
        /\ \A i \in 1 .. 6 : CallVoxels(emitted[i]) = SolidPositions
        /\ Len(vertices) = 24
        /\ Len(indices) = 36
        /\ \A i \in 1 .. Len(vertices) : vertices[i].ao = 0

\* The voxel at the corner (0, 0, 0), and the one at the opposite corner.
C10_Witness ==
    /\ pc = "done"
    /\ SingleVoxel
    /\ SolidPositions = {<<0, 0, 0>>}

\* Phase 4 with the levels of a key taken in ascending order.
RECURSIVE levels_in_order_vertices(_, _, _, _)
levels_in_order_vertices(d, block_ao, axis_plane, todo) ==
    IF todo = {} THEN <<>>
    ELSE LET axis_pos == SetMin(todo)
         IN  quads_vertices(greedy_mesh_binary_plane(axis_plane[axis_pos], build_lod_size),
                            FaceDirOf(d), axis_pos, key_ao(block_ao), key_block_type(block_ao))
                \o levels_in_order_vertices(d, block_ao, axis_plane, todo \ {axis_pos})

\* Phase 4 with the keys of a direction taken in ascending order.
RECURSIVE keys_in_order_vertices(_, _, _)
keys_in_order_vertices(d, block_ao_data, todo) ==
    IF todo = {} THEN <<>>
    ELSE LET block_ao == CHOOSE k \in todo : \A o \in todo : ValueOf(k) <= ValueOf(o)
         IN  levels_in_order_vertices(d, block_ao, block_ao_data[block_ao],
                                      DOMAIN block_ao_data[block_ao])
                \o keys_in_order_vertices(d, block_ao_data, todo \ {block_ao})

\* The vertex buffer of the build that iterates every map in ascending order.
RECURSIVE in_order_vertices(_, _)
in_order_vertices(dt, d) ==
    IF d >= 6 THEN <<>>
    ELSE keys_in_order_vertices(d, dt[d], DOMAIN dt[d]) \o in_order_vertices(dt, d + 1)

\* C11: as stated.  Two builds from one snapshot give the same vertex sequence
\* and the same index sequence whatever the order the maps are iterated in:
\* the build that takes keys and levels in ascending order being one of them,
\* every finished build has that build's vertices and indices.
C11_SameSequencesAnyOrder ==
    (pc = "done" /\ col_face_masks # <<>>) =>
        LET reference == in_order_vertices(group_faces(col_face_masks), 0)
        IN  /\ vertices = reference
            /\ result = "Some" => indices = generate_indices(Len(reference))

\* The face-mask columns the grouper reads: col_face_masks[axis][z + 1][x + 1].
GroupedColumns == {col_face_masks[c[1]][c[3] + 1][c[2] + 1] :
                      c \in (0 .. 5) \X LocalCoords \X LocalCoords}

\* C12: padding never reaches the grouper.  Every bit index taken from a
\* face-mask column after padding removal is in 0 .. CHUNK_SIZE - 1 and the
\* voxel recovered from it is a voxel of the chunk, in all 6 directions; every
\* level of the grouped maps is in 0 .. CHUNK_SIZE - 1 and every plane has
\* its rows and its bits there; every face emitted is the face of a voxel of
\* the chunk, so that a solid border voxel never gets a face of its own.
C12_PaddingNeverGrouped ==
    /\ pc = "culled" =>
        /\ \A col \in GroupedColumns : remove_padding(col) \subseteq LocalCoords
        /\ \A f \in faces_of(col_face_masks) :
            /\ f[3] \in LocalCoords
            /\ InChunk(voxel_pos_of(f[1], f[2], f[3], f[4]))
    /\ pc = "meshing" =>
        \A d \in 0 .. 5 : \A k \in DOMAIN data[d] : \A l \in DOMAIN data[d][k] :
            /\ l \in LocalCoords
            /\ DOMAIN data[d][k][l] = LocalCoords
            /\ \A x \in LocalCoords : data[d][k][l][x] \subseteq LocalCoords
    /\ pc = "done" =>
        \A i \in 1 .. Len(emitted) :
            /\ emitted[i].axis_pos \in LocalCoords
            /\ CallVoxels(emitted[i]) \subseteq ChunkPositions

\* A finished build with faces, where the masks the grouper read held a face
\* bit at the bottom padding (a solid border voxel below the chunk) and one
\* at the top padding (a solid border voxel above it).
C12_Witness ==
    /\ pc = "done"
    /\ emitted # <<>>
    /\ \E col \in GroupedColumns : 0 \in col
    /\ \E col \in GroupedColumns : (CHUNK_SIZE + 1) \in col

\* C13: greedy_mesh_binary_plane terminates on every plane.  Each pass of the
\* scan of a row moves y forward: either to the plane size or beyond with no
\* quad, or past a run of h >= 1 bits found at or after y, to the end of the
\* run; the width of the quad then emitted stops at the first row that does
\* not match or at the plane size.  So the function returns in the end.
C13_Terminates ==
    /\ [][PlaneScan =>
            /\ y' > y
            /\ \/ y' >= lod_size /\ greedy_quads' = greedy_quads
               \/ /\ Len(greedy_quads') = Len(greedy_quads) + 1
                  /\ LET q == greedy_quads'[Len(greedy_quads')]
                     IN  /\ q.x = row
                         /\ q.y >= y
                         /\ q.h >= 1
                         /\ y' = q.y + q.h
                         /\ y' <= data_len(pdata)
                         /\ q.w >= 1
                         /\ q.x + q.w <= lod_size
                         /\ \/ q.x + q.w = lod_size
                            \/ ~((q.y .. (q.y + q.h - 1)) \subseteq pdata'[q.x + q.w])
       ]_vars
    /\ <>(ppc = "done")

\* The function has returned from a plane with a row of zeros and a row of
\* ones, the latter scanned as one run of the full extent.
C13_Witness ==
    /\ ppc = "done"
    /\ \E r \in DOMAIN plane : plane[r] = {}
    /\ \E i \in 1 .. Len(greedy_quads) :
        /\ greedy_quads[i].h = data_len(plane)
        /\ plane[greedy_quads[i].x] = 0 .. (data_len(plane) - 1)
====
